---- MODULE Spec2Model ----
(***************************************************************************)
(* A model of airblue.py: the flight scraper's argument validation          *)
(* (check_iata, format_date, check_date, validate_args), its extraction     *)
(* functions (get_times, get_prices, get_travel_data) and its combiner      *)
(* (print_travel_options).                                                  *)
(*                                                                          *)
(* Representation.                                                          *)
(*  - A text is a sequence of one-character strings.                        *)
(*  - A date string is <<sep, y, m, d>>: "2020-02-27" is <<"-",2020,2,27>>, *)
(*    "2020.02.27" is <<".",2020,2,27>>, '' is <<"",0,0,0>> and None is     *)
(*    <<"None",0,0,0>>.                                                     *)
(*  - A clock text is <<hour, minute, marker>>: "11:45 PM" is <<11,45,"PM">>*)
(*    and an element without text (None) is <<0,0,"None">>.                 *)
(*  - A datetime is <<ordinal, minute of the day>>, a timedelta is          *)
(*    [days, seconds] normalised as Python normalises it.                   *)
(*  - A price amount (a Python float) is a natural number of thousandths;   *)
(*    an amount the regular expression can capture is never negative and    *)
(*    never NaN, so the floats the program sorts are totally ordered.       *)
(*  - A call that can raise returns [exc, val]: exc is "none" or the name   *)
(*    of the exception that left the function.                              *)
(***************************************************************************)
EXTENDS Integers, Sequences, FiniteSets, TLC

VARIABLES
    pc,             \* the position of the program
    iata_list,      \* check_iata: the codes get_iata_list() returned
    dep_iata,       \* check_iata / get_travel_data's where_from
    arr_iata,       \* check_iata / get_travel_data's where_to
    dep_date,       \* check_date, print_travel_options
    arr_date,       \* check_date, print_travel_options
    clock,          \* the date datetime.date.today() returns now
    today,          \* format_date's local `today`, per date_type
    date,           \* get_times / get_travel_data: the flight date
    travel,         \* get_times / get_prices: one table row
    rates,          \* get_prices: the fare-class names
    parsed_page,    \* get_travel_data: the table of the page
    ret,            \* what the function under check returned
    first_travel,   \* print_travel_options
    second_travel,  \* print_travel_options
    flights_comb_list, \* print_travel_options: the pairs the filter kept
    printed         \* what print() wrote

vars == <<pc, iata_list, dep_iata, arr_iata, dep_date, arr_date, clock, today,
          date, travel, rates, parsed_page, ret, first_travel, second_travel,
          flights_comb_list, printed>>

None == <<"None", 0, 0, 0>>
NoText == <<0, 0, "None">>

Return(v) == [exc |-> "none", val |-> v]
Raise(e) == [exc |-> e, val |-> <<>>]

----------------------------------------------------------------------------
(* datetime.date: the proleptic Gregorian calendar *)

IsLeap(y) == (y % 4 = 0) /\ ((y % 100 # 0) \/ (y % 400 = 0))

DaysInMonth(y, m) ==
    IF m = 2 THEN (IF IsLeap(y) THEN 29 ELSE 28)
    ELSE IF m \in {4, 6, 9, 11} THEN 30 ELSE 31

DaysBeforeYear(y) ==
    (y - 1) * 365 + ((y - 1) \div 4) - ((y - 1) \div 100) + ((y - 1) \div 400)

RECURSIVE DaysBeforeMonth(_, _)
DaysBeforeMonth(y, m) ==
    IF m = 1 THEN 0 ELSE DaysBeforeMonth(y, m - 1) + DaysInMonth(y, m - 1)

\* date(y, m, d).toordinal()
ToOrdinal(y, m, d) == DaysBeforeYear(y) + DaysBeforeMonth(y, m) + d

\* datetime.date.fromisoformat(s): YYYY-MM-DD naming a day of the calendar
FromIsoFormat(s) ==
    IF s[1] = "-" /\ s[2] \in 1..9999 /\ s[3] \in 1..12
       /\ s[4] \in 1..DaysInMonth(s[2], s[3])
    THEN Return(ToOrdinal(s[2], s[3], s[4]))
    ELSE Raise("ValueError")

----------------------------------------------------------------------------
(* get_times *)

\* '%I:%M %p': hour 01..12, minute 00..59, AM or PM
IsClockText(t) == t[1] \in 1..12 /\ t[2] \in 0..59 /\ t[3] \in {"AM", "PM"}

\* the minute of the day strptime gives a clock text: 12 AM is 0, 12 PM is 720
ClockMinute(t) == (t[1] % 12) * 60 + t[2] + (IF t[3] = "PM" THEN 720 ELSE 0)

\* datetime.datetime.strptime(f'{date}-{time}', '%Y-%m-%d-%I:%M %p')
Strptime(d, t) ==
    LET day == FromIsoFormat(d)
    IN  IF day.exc # "none" \/ ~IsClockText(t) THEN Raise("ValueError")
        ELSE Return(<<day.val, ClockMinute(t)>>)

\* datetime comparison a > b
DtGreater(a, b) == a[1] > b[1] \/ (a[1] = b[1] /\ a[2] > b[2])

\* a + datetime.timedelta(days=n)
DtAddDays(a, n) == <<a[1] + n, a[2]>>

\* a - b, a timedelta normalised to 0 <= seconds < 86400
DtSub(a, b) ==
    LET total == ((a[1] - b[1]) * 1440 + (a[2] - b[2])) * 60
        secs  == total % 86400
    IN  [days |-> (total - secs) \div 86400, seconds |-> secs]

LandingRollsOverGE(dt_leaving, dt_landing) == ~DtGreater(dt_landing, dt_leaving)

\* line 72: if dt_leaving > dt_landing
LandingRollsOver(dt_leaving, dt_landing) == DtGreater(dt_leaving, dt_landing)

GetTimes(row, d) ==
    LET leaving == Strptime(d, row.time_leaving)
        landing == Strptime(d, row.time_landing)
    IN  IF leaving.exc # "none" THEN Raise(leaving.exc)
        ELSE IF landing.exc # "none" THEN Raise(landing.exc)
        ELSE
          LET dt_leaving  == leaving.val
              dt_landing  == IF LandingRollsOver(leaving.val, landing.val)
                             THEN DtAddDays(landing.val, 1)
                             ELSE landing.val
              time_on_air == DtSub(dt_landing, dt_leaving)
              hours       == time_on_air.seconds \div 3600
              minutes     == (time_on_air.seconds % 3600) \div 60
          IN  Return(<<dt_leaving, dt_landing,
                       <<hours, " hour(s) ", minutes, " minute(s)">> >>)

(* The inputs of get_times: every hour of the 12-hour clock, three minutes,  *)
(* and three texts strptime rejects.                                         *)
Hours == 1..12
Minutes == {0, 30, 59}
ValidClockTexts == {<<h, m, p>> : h \in Hours, m \in Minutes, p \in {"AM", "PM"}}
MalformedClockTexts == {<<13, 0, "PM">>, <<10, 60, "AM">>, NoText}
FlightDates == {<<"-", 2020, 2, 28>>, <<"-", 2020, 12, 31>>}

IdleRow == [time_leaving |-> NoText, time_landing |-> NoText, cells |-> <<>>]

validateVars == <<iata_list, clock, today>>
nameVars == <<dep_iata, arr_iata>>
dateVars == <<dep_date, arr_date>>
optionVars == <<first_travel, second_travel, flights_comb_list, printed>>

IdleValidate ==
    /\ iata_list = {} /\ clock = 0 /\ today = [departure |-> 0, arrival |-> 0]

IdleNames == dep_iata = <<>> /\ arr_iata = <<>>

IdleDates == dep_date = None /\ arr_date = None

IdleRowArgs == travel = IdleRow /\ rates = <<>>

IdleOptions ==
    /\ first_travel = <<>> /\ second_travel = <<>>
    /\ flights_comb_list = <<>> /\ printed = <<>>

InitTimes ==
    /\ pc = "get_times"
    /\ date \in FlightDates
    /\ travel \in [time_leaving : ValidClockTexts \cup MalformedClockTexts,
                   time_landing : ValidClockTexts \cup MalformedClockTexts,
                   cells : {<<>>}]
    /\ rates = <<>> /\ parsed_page = <<>> /\ ret = Raise("pending")
    /\ IdleValidate /\ IdleNames /\ IdleDates /\ IdleOptions

CallGetTimes ==
    /\ pc = "get_times"
    /\ ret' = GetTimes(travel, date)
    /\ pc' = "get_times_done"
    /\ UNCHANGED <<date, travel, rates, parsed_page>>
    /\ UNCHANGED <<validateVars, nameVars, dateVars, optionVars>>

NextTimes == CallGetTimes

SpecTimes == InitTimes /\ [][NextTimes]_vars

(* C3: for valid 12-hour clock texts get_times returns the departure on the  *)
(* flight date at the departure clock time, the arrival at the arrival clock *)
(* time on the same day, or on the next day if and only if the arrival clock *)
(* time is strictly earlier than the departure clock time; so arrival >=     *)
(* departure, and the reported hours and minutes are arrival minus departure,*)
(* at least 0 and less than 24 hours.                                        *)
C3_GetTimesRollover ==
    (pc = "get_times_done" /\ IsClockText(travel.time_leaving)
        /\ IsClockText(travel.time_landing)) =>
      /\ ret.exc = "none"
      /\ LET day      == ToOrdinal(date[2], date[3], date[4])
             cl       == ClockMinute(travel.time_leaving)
             ca       == ClockMinute(travel.time_landing)
             dep      == ret.val[1]
             arr      == ret.val[2]
             duration == ret.val[3][1] * 60 + ret.val[3][3]
             elapsed  == (arr[1] - dep[1]) * 1440 + (arr[2] - dep[2])
         IN  /\ dep = <<day, cl>>
             /\ arr[2] = ca
             /\ (arr[1] = day + 1) <=> (ca < cl)
             /\ (arr[1] = day) <=> (ca >= cl)
             /\ elapsed >= 0
             /\ duration = elapsed
             /\ duration >= 0 /\ duration < 24 * 60

\* an overnight flight has been timed: 11:30 PM to 12:30 AM, one hour
C3_Witness ==
    /\ pc = "get_times_done"
    /\ travel.time_leaving = <<11, 30, "PM">>
    /\ travel.time_landing = <<12, 30, "AM">>
    /\ ret.exc = "none"
    /\ ret.val[2][1] = ret.val[1][1] + 1
    /\ ret.val[3] = <<1, " hour(s) ", 0, " minute(s)">>

----------------------------------------------------------------------------
(* get_prices *)

UpperCase == {"A", "B", "C", "D", "E", "F", "G", "H", "I", "J", "K", "L", "M",
              "N", "O", "P", "Q", "R", "S", "T", "U", "V", "W", "X", "Y", "Z"}
Digit == {"0", "1", "2", "3", "4", "5", "6", "7", "8", "9"}
\* [0-9,.]
NumericChar == Digit \cup {",", "."}
\* \s
WhiteSpace == {" ", "\t", "\n", "\r"}
\* [\s"]
Terminator == WhiteSpace \cup {"\""}

\* the length of the longest run of [0-9,.] that starts at s[i]
RECURSIVE NumericRun(_, _)
NumericRun(s, i) ==
    IF i <= Len(s) /\ s[i] \in NumericChar THEN 1 + NumericRun(s, i + 1) ELSE 0

(* r'([A-Z]{3})\s([0-9,.]+)[\s"]' matched at s[i]. [0-9,.] and [\s"] share *)
(* no character, so the greedy group 2 is the whole run or there is no      *)
(* match at i.                                                              *)
MatchAt(s, i) ==
    /\ i + 5 <= Len(s)
    /\ s[i] \in UpperCase /\ s[i + 1] \in UpperCase /\ s[i + 2] \in UpperCase
    /\ s[i + 3] \in WhiteSpace
    /\ NumericRun(s, i + 4) >= 1
    /\ i + 4 + NumericRun(s, i + 4) <= Len(s)
    /\ s[i + 4 + NumericRun(s, i + 4)] \in Terminator

\* re.search: the leftmost match, [found, group1, group2]
ReSearch(s) ==
    IF \E i \in 1..Len(s) : MatchAt(s, i)
    THEN LET i == CHOOSE k \in 1..Len(s) :
                    MatchAt(s, k) /\ \A j \in 1..(k - 1) : ~MatchAt(s, j)
         IN  [found |-> TRUE,
              group1 |-> SubSeq(s, i, i + 2),
              group2 |-> SubSeq(s, i + 4, i + 3 + NumericRun(s, i + 4))]
    ELSE [found |-> FALSE, group1 |-> <<>>, group2 |-> <<>>]

\* s.replace(',', '')
RemoveCommas(s) == SelectSeq(s, LAMBDA c : c # ",")

DigitValue(c) ==
    CASE c = "0" -> 0 [] c = "1" -> 1 [] c = "2" -> 2 [] c = "3" -> 3
      [] c = "4" -> 4 [] c = "5" -> 5 [] c = "6" -> 6 [] c = "7" -> 7
      [] c = "8" -> 8 [] c = "9" -> 9

\* the number a sequence of digits writes
RECURSIVE DigitsValue(_)
DigitsValue(s) ==
    IF s = <<>> THEN 0
    ELSE DigitsValue(SubSeq(s, 1, Len(s) - 1)) * 10 + DigitValue(s[Len(s)])

\* the thousandths the digits after the point write: "5" is 500, "25" is 250
Thousandths(s) ==
    DigitsValue(SubSeq(s \o <<"0", "0", "0">>, 1, 3))

(* float(s) for a text of digits and points: a number if the text has at    *)
(* least one digit and at most one point, ValueError otherwise. The amount  *)
(* is kept in thousandths.                                                  *)
Float(s) ==
    LET points == {i \in 1..Len(s) : s[i] = "."}
        digits == {i \in 1..Len(s) : s[i] \in Digit}
    IN  IF Cardinality(points) > 1 \/ digits = {} THEN Raise("ValueError")
        ELSE IF points = {} THEN Return(DigitsValue(s) * 1000)
        ELSE LET p == CHOOSE i \in points : TRUE
             IN  Return(DigitsValue(SubSeq(s, 1, p - 1)) * 1000
                        + Thousandths(SubSeq(s, p + 1, Len(s))))

\* prices[key] = value on a dict kept as the sequence of its items in
\* insertion order: a key already there keeps its place and takes the value
DictSet(d, key, value) ==
    IF \E i \in 1..Len(d) : d[i][1] = key
    THEN [i \in 1..Len(d) |-> IF d[i][1] = key THEN <<key, value>> ELSE d[i]]
    ELSE Append(d, <<key, value>>)

Min(a, b) == IF a < b THEN a ELSE b

\* lines 101-106 from the k-th pair of zip(rates, cells) on
RECURSIVE GetPricesFrom(_, _, _, _)
GetPricesFrom(cells, rate_names, k, prices) ==
    IF k > Min(Len(rate_names), Len(cells)) THEN Return(prices)
    ELSE LET money == ReSearch(cells[k])
         IN  IF ~money.found
             THEN GetPricesFrom(cells, rate_names, k + 1, prices)
             ELSE LET amount == Float(RemoveCommas(money.group2))
                  IN  IF amount.exc # "none" THEN Raise(amount.exc)
                      ELSE GetPricesFrom(cells, rate_names, k + 1,
                             DictSet(prices, rate_names[k],
                                     <<amount.val, money.group1>>))

GetPrices(row, rate_names) == GetPricesFrom(row.cells, rate_names, 1, <<>>)

(* The inputs of get_prices: one fare cell whose markup is a lead, three     *)
(* characters, a separator, a token of at most MaxTok characters, what       *)
(* follows the token, and possibly a second price after it.                  *)
MaxTok == 4
TokChars == {"1", ",", "."}
Texts(chars, n) == UNION {[1..k -> chars] : k \in 0..n}
Leads == {<<>>, <<"x">>, <<"U">>}
Followers == {<<>>, <<" ">>, <<"\"">>, <<"x">>}
Trails == {<<>>, <<"P", "K", "R", " ", "2", " ">>}
Markups ==
    {lead \o cur \o <<sep>> \o tok \o follow \o trail :
        lead \in Leads, cur \in [1..3 -> {"U", "x"}], sep \in {" ", "x"},
        tok \in Texts(TokChars, MaxTok), follow \in Followers,
        trail \in Trails}

InitPrices ==
    /\ pc = "get_prices"
    /\ \E m \in Markups :
          travel = [time_leaving |-> NoText, time_landing |-> NoText,
                    cells |-> <<m>>]
    /\ rates = <<"Value">>
    /\ date = None /\ parsed_page = <<>> /\ ret = Raise("pending")
    /\ IdleValidate /\ IdleNames /\ IdleDates /\ IdleOptions

CallGetPrices ==
    /\ pc = "get_prices"
    /\ ret' = GetPrices(travel, rates)
    /\ pc' = "get_prices_done"
    /\ UNCHANGED <<date, travel, rates, parsed_page>>
    /\ UNCHANGED <<validateVars, nameVars, dateVars, optionVars>>

NextPrices == CallGetPrices

SpecPrices == InitPrices /\ [][NextPrices]_vars

\* the pattern as the claim words it: the numeric token has at most one
\* decimal point and, being numeric, a digit
ClaimedMatchAt(s, i) ==
    /\ MatchAt(s, i)
    /\ LET tok == SubSeq(s, i + 4, i + 3 + NumericRun(s, i + 4))
       IN  /\ Cardinality({k \in 1..Len(tok) : tok[k] = "."}) <= 1
           /\ \E k \in 1..Len(tok) : tok[k] \in Digit

(* C6: price extraction never fails: get_prices returns, and what it        *)
(* recorded for the class is the (amount, currency) of the first occurrence *)
(* of the pattern with a numeric token of at most one decimal point, commas *)
(* removed, or nothing when the markup has no such occurrence.              *)
C6_PriceExtractionNeverFails ==
    pc = "get_prices_done" =>
      LET s == travel.cells[1]
      IN  /\ ret.exc = "none"
          /\ IF \E i \in 1..Len(s) : ClaimedMatchAt(s, i)
             THEN LET i == CHOOSE k \in 1..Len(s) :
                             ClaimedMatchAt(s, k)
                             /\ \A j \in 1..(k - 1) : ~ClaimedMatchAt(s, j)
                      tok == SubSeq(s, i + 4, i + 3 + NumericRun(s, i + 4))
                  IN  ret.val = << <<rates[1],
                                     <<Float(RemoveCommas(tok)).val,
                                       SubSeq(s, i, i + 2)>> >> >>
             ELSE ret.val = <<>>

----------------------------------------------------------------------------
(* get_travel_data *)

\* the id of the table of flight group `number` on day d:
\* f'trip_{number}_date_{date.replace("-", "_")}'
TableId(number, d) == <<"trip", number, "date", d[2], d[3], d[4]>>

\* the namedtuple Journey
Journey(from, to, times, class, price) ==
    [From |-> from, To |-> to, Departure |-> times[1], Arrival |-> times[2],
     Flight_time |-> times[3], Class |-> class, Price |-> price]

\* rate_item.text_content().split()[0] for each header cell, a list of words
RECURSIVE HeaderRates(_)
HeaderRates(head) ==
    IF head = <<>> THEN Return(<<>>)
    ELSE IF head[1] = <<>> THEN Raise("IndexError")
    ELSE LET rest == HeaderRates(Tail(head))
         IN  IF rest.exc # "none" THEN rest
             ELSE Return(<<head[1][1]>> \o rest.val)

\* lines 178-181: one Journey per item of prices, in the dict's order
RowJourneys(from, to, times, prices) ==
    [k \in 1..Len(prices) |->
        Journey(from, to, times, prices[k][1], prices[k][2])]

\* lines 175-181 from the first row of travel_list on
RECURSIVE CollectRows(_, _, _, _, _, _)
CollectRows(travel_list, rate_names, d, from, to, travel_details) ==
    IF travel_list = <<>> THEN Return(travel_details)
    ELSE LET times == GetTimes(travel_list[1], d)
         IN  IF times.exc # "none" THEN Raise(times.exc)
             ELSE LET prices == GetPrices(travel_list[1], rate_names)
                  IN  IF prices.exc # "none" THEN Raise(prices.exc)
                      ELSE CollectRows(Tail(travel_list), rate_names, d,
                             from, to,
                             travel_details
                               \o RowJourneys(from, to, times.val, prices.val))

\* basic_path + '/tbody/tr[@class="flight-status-ontime"]'
TravelList(page, d, number) ==
    IF page.id = TableId(number, d)
    THEN SelectSeq(page.rows, LAMBDA r : r.class = "flight-status-ontime")
    ELSE <<>>

GetTravelData(page, d, where_from, where_to, number) ==
    LET travel_list == TravelList(page, d, number)
    IN  IF travel_list # <<>>
        THEN LET rate_names == HeaderRates(page.head)
             IN  IF rate_names.exc # "none" THEN Raise(rate_names.exc)
                 ELSE CollectRows(travel_list, rate_names.val, d,
                                  where_from, where_to, <<>>)
        ELSE Return(<<>>)

(* The inputs of get_travel_data: a page with one table of at most MaxRows   *)
(* rows and MaxClasses fare classes, for the requested day or another one.   *)
MaxRows == 2
MaxClasses == 2
SoldOut == <<"S", "O", "L", "D", " ", "O", "U", "T">>
PricedCell == <<"P", "K", "R", " ", "7", ",", "8", "4", "0", " ">>
CellMarkups == {SoldOut, PricedCell}
HeaderCells == {<<"Standard", "(1", "Bag)">>, <<"Standard", "(2", "Bags)">>,
                <<"Discount">>}
RowTimes == {<<<<8, 0, "AM">>, <<10, 0, "AM">>>>,
             <<<<11, 0, "PM">>, <<1, 0, "AM">>>>,
             <<NoText, <<10, 0, "AM">>>>}
TableRows ==
    {[class |-> c, time_leaving |-> t[1], time_landing |-> t[2], cells |-> x] :
        c \in {"flight-status-ontime", "flight-status-cancelled"},
        t \in RowTimes,
        x \in UNION {[1..k -> CellMarkups] : k \in 0..MaxClasses}}
KHI == <<"K", "H", "I">>
ISB == <<"I", "S", "B">>

InitTravel ==
    /\ pc = "get_travel_data"
    /\ date = <<"-", 2020, 2, 28>>
    /\ \E d \in {<<"-", 2020, 2, 28>>, <<"-", 2020, 2, 29>>} :
       \E h \in UNION {[1..k -> HeaderCells] : k \in 0..MaxClasses} :
       \E r \in UNION {[1..k -> TableRows] : k \in 0..MaxRows} :
          parsed_page = [id |-> TableId(1, d), head |-> h, rows |-> r]
    /\ dep_iata = KHI /\ arr_iata = ISB
    /\ ret = Raise("pending")
    /\ IdleRowArgs /\ IdleValidate /\ IdleDates /\ IdleOptions

CallGetTravelData ==
    /\ pc = "get_travel_data"
    /\ ret' = GetTravelData(parsed_page, date, dep_iata, arr_iata, 1)
    /\ pc' = "get_travel_data_done"
    /\ UNCHANGED <<date, travel, rates, parsed_page>>
    /\ UNCHANGED <<validateVars, nameVars, dateVars, optionVars>>

NextTravel == CallGetTravelData

SpecTravel == InitTravel /\ [][NextTravel]_vars

\* the on-schedule rows of the requested table
OnScheduleRows ==
    IF parsed_page.id = TableId(1, date)
    THEN SelectSeq(parsed_page.rows,
                   LAMBDA r : r.class = "flight-status-ontime")
    ELSE <<>>

ValidTimes(r) == IsClockText(r.time_leaving) /\ IsClockText(r.time_landing)

\* the price of a cell's markup, if it holds one
HasPrice(m) ==
    ReSearch(m).found /\ Float(RemoveCommas(ReSearch(m).group2)).exc = "none"
PriceOf(m) ==
    <<Float(RemoveCommas(ReSearch(m).group2)).val, ReSearch(m).group1>>

\* one leg per header position of the row whose price cell holds a price,
\* in header order
RECURSIVE ExpectedRowLegs(_, _, _)
ExpectedRowLegs(r, head, k) ==
    IF k > Len(head) THEN <<>>
    ELSE (IF k <= Len(r.cells) /\ HasPrice(r.cells[k])
          THEN <<Journey(dep_iata, arr_iata, GetTimes(r, date).val,
                         head[k][1], PriceOf(r.cells[k]))>>
          ELSE <<>>) \o ExpectedRowLegs(r, head, k + 1)

\* the expected legs of the rows, in document order
RECURSIVE ExpectedLegs(_, _)
ExpectedLegs(rows, head) ==
    IF rows = <<>> THEN <<>>
    ELSE ExpectedRowLegs(rows[1], head, 1) \o ExpectedLegs(Tail(rows), head)

(* C4: for a table with on-schedule rows (all with valid clock texts)        *)
(* get_travel_data returns exactly one leg per (row, header position) whose  *)
(* price cell holds a parseable price, rows in document order and classes in *)
(* header order, for any header labels, two equal first tokens included.     *)
C4_OneLegPerRowAndHeaderPosition ==
    (pc = "get_travel_data_done" /\ OnScheduleRows # <<>>
        /\ \A i \in 1..Len(OnScheduleRows) : ValidTimes(OnScheduleRows[i])) =>
      /\ ret.exc = "none"
      /\ ret.val = ExpectedLegs(OnScheduleRows, parsed_page.head)

(* C5: when an on-schedule row has a clock text that is not 12-hour time,    *)
(* get_travel_data does not abort: it returns the legs of every other,       *)
(* valid, row of the table.                                                  *)
C5_MalformedRowIsSkipped ==
    (pc = "get_travel_data_done"
        /\ \E i \in 1..Len(OnScheduleRows) : ~ValidTimes(OnScheduleRows[i])) =>
      /\ ret.exc = "none"
      /\ ret.val = ExpectedLegs(SelectSeq(OnScheduleRows, ValidTimes),
                                parsed_page.head)

\* C4 where no two header cells share a first token
C4_DistinctLabels ==
    (pc = "get_travel_data_done" /\ OnScheduleRows # <<>>
        /\ (\A i \in 1..Len(OnScheduleRows) : ValidTimes(OnScheduleRows[i]))
        /\ \A i, j \in 1..Len(parsed_page.head) :
              i # j => parsed_page.head[i][1] # parsed_page.head[j][1]) =>
      /\ ret.exc = "none"
      /\ ret.val = ExpectedLegs(OnScheduleRows, parsed_page.head)

----------------------------------------------------------------------------
(* print_travel_options *)

TABLE_HEAD == <<"From", "To", "Departure", "Arrival", "Flight time", "Class",
                "Price">>

\* what one print() call wrote
Message(text) == [kind |-> "message", body |-> text]
Stars == [kind |-> "stars", body |-> <<"*", 50>>]
Table(rows) == [kind |-> "table", body |-> [head |-> TABLE_HEAD, rows |-> rows]]

\* Python's truth of a date argument: None and '' are false
Truthy(d) == d # None /\ d # <<"", 0, 0, 0>>

\* convert_data: the fields but the last, then str(price) + ' ' + currency
ConvertData(leg) ==
    <<leg.From, leg.To, leg.Departure, leg.Arrival, leg.Flight_time, leg.Class,
      <<leg.Price[1], " ", leg.Price[2]>> >>

\* total_cost
TotalCost(travel_combination) ==
    travel_combination[1].Price[1] + travel_combination[2].Price[1]

\* lines 374-375: print('Total cost: ', total_cost(...), outbound.Price[1])
TotalLine(outbound, inbound) ==
    [kind |-> "total",
     body |-> <<"Total cost: ", TotalCost(<<outbound, inbound>>),
                outbound.Price[2]>>]

\* line 357
NotAvailableOnBoth(dep, arr) ==
    Message(<<"Flights are not available on ", dep, " and ", arr>>)

\* lines 366 and 378
NotAvailableOn(dep) == Message(<<"Flights  are not available on ", dep>>)

\* itertools.product(a, b): every a[i] with every b[j], a's index the slower
Product(a, b) ==
    [k \in 1..(Len(a) * Len(b)) |->
        <<a[((k - 1) \div Len(b)) + 1], b[((k - 1) % Len(b)) + 1]>>]

SameDayOverlapGE(dep, arr, outbound, inbound) ==
    dep = arr /\ ~DtGreater(inbound.Departure, outbound.Arrival)

\* lines 361-362: the pair is dropped
SameDayOverlap(dep, arr, outbound, inbound) ==
    dep = arr /\ DtGreater(outbound.Arrival, inbound.Departure)

\* lines 359-364
FlightsCombList(first, second, dep, arr) ==
    SelectSeq(Product(first, second),
              LAMBDA c : ~SameDayOverlap(dep, arr, c[1], c[2]))

InsertBeforeEqual(sorted, x) ==
    LET n == Cardinality({i \in 1..Len(sorted) : sorted[i][1] < x[1]})
    IN  SubSeq(sorted, 1, n) \o <<x>> \o SubSeq(sorted, n + 1, Len(sorted))

\* x = <<key, item>> put into a list sorted by key, after the items whose key
\* is not larger: the order sorted() keeps among equal keys
InsertByKey(sorted, x) ==
    LET n == Cardinality({i \in 1..Len(sorted) : sorted[i][1] <= x[1]})
    IN  SubSeq(sorted, 1, n) \o <<x>> \o SubSeq(sorted, n + 1, Len(sorted))

RECURSIVE SortKeyed(_)
SortKeyed(keyed) ==
    IF keyed = <<>> THEN <<>>
    ELSE InsertByKey(SortKeyed(SubSeq(keyed, 1, Len(keyed) - 1)),
                     keyed[Len(keyed)])

\* sorted(flights_comb_list, key=total_cost)
SortedByTotalCost(list) ==
    LET keyed  == [k \in 1..Len(list) |-> <<TotalCost(list[k]), list[k]>>]
        sorted == SortKeyed(keyed)
    IN  [k \in 1..Len(list) |-> sorted[k][2]]

\* sorted(first_travel, key=lambda travel: travel.Price[0])
SortedByPrice(list) ==
    LET keyed  == [k \in 1..Len(list) |-> <<list[k].Price[1], list[k]>>]
        sorted == SortKeyed(keyed)
    IN  [k \in 1..Len(list) |-> sorted[k][2]]

\* lines 367-375: what the loop prints for the pairs, in their order
RECURSIVE PrintPairs(_)
PrintPairs(list) ==
    IF list = <<>> THEN <<>>
    ELSE <<Stars,
           Table(<<ConvertData(list[1][1]), ConvertData(list[1][2])>>),
           TotalLine(list[1][1], list[1][2])>> \o PrintPairs(Tail(list))

\* lines 380-385
RECURSIVE PrintLegs(_)
PrintLegs(list) ==
    IF list = <<>> THEN <<>>
    ELSE <<Stars, Table(<<ConvertData(list[1])>>)>> \o PrintLegs(Tail(list))

PrintWhenNoneCompatibleSilent(list, dep) == <<>>

\* lines 365-366
PrintWhenNoneCompatible(list, dep) ==
    IF list = <<>> THEN <<NotAvailableOn(dep)>> ELSE <<>>

(* The legs print_travel_options is given are the ones get_travel_data       *)
(* builds: the times of get_times on the day asked for, and a price.         *)
MaxLegs == 2
OutboundFlights == {<<<<8, 0, "AM">>, <<10, 0, "AM">>>>,
                    <<<<10, 0, "AM">>, <<2, 0, "PM">>>>,
                    <<<<11, 0, "PM">>, <<1, 0, "AM">>>>}
InboundFlights == {<<<<8, 0, "AM">>, <<10, 0, "AM">>>>,
                   <<<<10, 0, "AM">>, <<2, 0, "PM">>>>}
PKR == <<"P", "K", "R">>
USD == <<"U", "S", "D">>
OutboundPrices == {<<100000, PKR>>, <<50000, USD>>}
InboundPrices == {<<50000, PKR>>, <<100000, PKR>>}
LegsOn(d, from, to, flights, prices) ==
    {Journey(from, to,
             GetTimes([time_leaving |-> f[1], time_landing |-> f[2],
                       cells |-> <<>>], d).val,
             "Standard", p) : f \in flights, p \in prices}
Lists(S) == UNION {[1..k -> S] : k \in 0..MaxLegs}
DepartureDay == <<"-", 2020, 2, 28>>
ReturnDays == {None, <<"-", 2020, 2, 28>>, <<"-", 2020, 2, 29>>}

InitOptions ==
    /\ pc = "print_travel_options"
    /\ dep_date = DepartureDay
    /\ arr_date \in ReturnDays
    /\ first_travel \in Lists(LegsOn(dep_date, KHI, ISB, OutboundFlights, OutboundPrices))
    /\ second_travel \in
          IF Truthy(arr_date)
          THEN Lists(LegsOn(arr_date, ISB, KHI, InboundFlights,
                            InboundPrices))
          ELSE {<<>>}
    /\ flights_comb_list = <<>> /\ printed = <<>>
    /\ dep_iata = KHI /\ arr_iata = ISB
    /\ date = None /\ parsed_page = <<>> /\ ret = Raise("pending")
    /\ IdleRowArgs /\ IdleValidate

PrintTravelOptions ==
    /\ pc = "print_travel_options"
    /\ pc' = "printed"
    /\ \/ /\ Truthy(arr_date)
          /\ first_travel = <<>> \/ second_travel = <<>>
          /\ printed' = <<NotAvailableOnBoth(dep_date, arr_date)>>
          /\ UNCHANGED flights_comb_list
       \/ /\ Truthy(arr_date)
          /\ first_travel # <<>> /\ second_travel # <<>>
          /\ flights_comb_list' =
                FlightsCombList(first_travel, second_travel, dep_date, arr_date)
          /\ printed' =
                PrintWhenNoneCompatible(flights_comb_list', dep_date)
                \o PrintPairs(SortedByTotalCost(flights_comb_list'))
       \/ /\ ~Truthy(arr_date)
          /\ first_travel = <<>>
          /\ printed' = <<NotAvailableOn(dep_date)>>
          /\ UNCHANGED flights_comb_list
       \/ /\ ~Truthy(arr_date)
          /\ first_travel # <<>>
          /\ printed' = PrintLegs(SortedByPrice(first_travel))
          /\ UNCHANGED flights_comb_list
    /\ UNCHANGED <<dep_date, arr_date, first_travel, second_travel>>
    /\ UNCHANGED <<date, travel, rates, parsed_page, ret>>
    /\ UNCHANGED <<validateVars, nameVars>>

NextOptions == PrintTravelOptions

SpecOptions == InitOptions /\ [][NextOptions]_vars

RoundTripWithLegs ==
    /\ pc = "printed" /\ Truthy(arr_date)
    /\ first_travel # <<>> /\ second_travel # <<>>

\* the positions <<a, b>> of the cross-product outbound x inbound
CrossPositions ==
    {<<a, b>> : a \in 1..Len(first_travel), b \in 1..Len(second_travel)}

\* the outbound leg lands strictly later than the inbound leg leaves
LandsAfterDeparture(c) ==
    LET arrival   == first_travel[c[1]].Arrival
        departure == second_travel[c[2]].Departure
    IN  arrival[1] > departure[1]
        \/ (arrival[1] = departure[1] /\ arrival[2] > departure[2])

PairAt(c) == <<first_travel[c[1]], second_travel[c[2]]>>

RECURSIVE KeptFrom(_, _)
KeptFrom(a, b) ==
    IF a > Len(first_travel) THEN <<>>
    ELSE IF b > Len(second_travel) THEN KeptFrom(a + 1, 1)
    ELSE (IF dep_date = arr_date /\ LandsAfterDeparture(<<a, b>>)
          THEN <<>> ELSE <<PairAt(<<a, b>>)>>) \o KeptFrom(a, b + 1)

\* the rows of the tables printed, in the order printed
PrintedRows ==
    LET tables == SelectSeq(printed, LAMBDA e : e.kind = "table")
    IN  [k \in 1..Len(tables) |-> tables[k].body.rows]

\* the rows of the entries to print, in the order of the input
InputRows ==
    IF Truthy(arr_date)
    THEN LET pairs == KeptFrom(1, 1)
         IN  [k \in 1..Len(pairs) |->
                <<ConvertData(pairs[k][1]), ConvertData(pairs[k][2])>>]
    ELSE [k \in 1..Len(first_travel) |-> <<ConvertData(first_travel[k])>>]

\* the cost of an entry: the amount of its leg, or of its two legs added
RowsCost(rows) ==
    IF Len(rows) = 2 THEN rows[1][7][1] + rows[2][7][1] ELSE rows[1][7][1]

(* C2: the entries are printed in ascending order of cost (the sum of the    *)
(* two amounts of a pair, the amount of a one-way leg), and the entries of   *)
(* one cost are printed in the order they have in the input (the             *)
(* cross-product outbound-major for pairs, the list for one-way legs).       *)
C2_AscendingStableOrder ==
    pc = "printed" =>
      /\ Len(PrintedRows) = Len(InputRows)
      /\ \A i, j \in 1..Len(PrintedRows) :
            i < j => RowsCost(PrintedRows[i]) <= RowsCost(PrintedRows[j])
      /\ \A k \in 1..Len(InputRows) :
            LET cost == RowsCost(InputRows[k])
            IN  SelectSeq(PrintedRows, LAMBDA r : RowsCost(r) = cost)
                  = SelectSeq(InputRows, LAMBDA r : RowsCost(r) = cost)

\* pairs were printed in another order than the input's, two of them of one
\* cost and different
C2_Witness ==
    /\ RoundTripWithLegs
    /\ PrintedRows # InputRows
    /\ \E i, j \in 1..Len(PrintedRows) :
          /\ i < j
          /\ RowsCost(PrintedRows[i]) = RowsCost(PrintedRows[j])
          /\ PrintedRows[i] # PrintedRows[j]

NoTablePrinted == \A k \in 1..Len(printed) : printed[k].kind = "message"

(* C7: for a round trip nothing is emitted when a leg list is empty or the   *)
(* same-day filter removes every pair; the first case prints one report, the *)
(* second prints one report, and the two reports differ.                     *)
C7_DistinctNoItineraryReports ==
    (pc = "printed" /\ Truthy(arr_date)) =>
      /\ (first_travel = <<>> \/ second_travel = <<>>) =>
            /\ printed = <<NotAvailableOnBoth(dep_date, arr_date)>>
            /\ NoTablePrinted
      /\ (first_travel # <<>> /\ second_travel # <<>>
            /\ \A c \in CrossPositions :
                  dep_date = arr_date /\ LandsAfterDeparture(c)) =>
            /\ printed = <<NotAvailableOn(dep_date)>>
            /\ NoTablePrinted
      /\ NotAvailableOnBoth(dep_date, arr_date).body
            # NotAvailableOn(dep_date).body

\* a same-day round trip with legs both ways and no compatible pair
C7_Witness ==
    /\ RoundTripWithLegs /\ dep_date = arr_date
    /\ flights_comb_list = <<>>
    /\ Len(printed) = 1 /\ printed[1].kind = "message"

(* C8: a pair whose two legs carry different currency codes is printed with  *)
(* the sum of the two amounts as its total and is flagged as mismatched: its *)
(* total is not presented under one of the two currencies.                   *)
C8_CurrencyMismatchFlagged ==
    pc = "printed" =>
      \A k \in 1..Len(printed) :
         (printed[k].kind = "table" /\ Len(printed[k].body.rows) = 2
             /\ printed[k].body.rows[1][7][3] # printed[k].body.rows[2][7][3]) =>
           /\ k < Len(printed) /\ printed[k + 1].kind = "total"
           /\ printed[k + 1].body[2] = RowsCost(printed[k].body.rows)
           /\ printed[k + 1].body[3] \notin {printed[k].body.rows[1][7][3],
                                             printed[k].body.rows[2][7][3]}

----------------------------------------------------------------------------
(* validate_args: check_iata, then check_date, then the wrapped function *)

\* str.upper() on one character
UpperChar(c) ==
    CASE c = "k" -> "K" [] c = "h" -> "H" [] c = "i" -> "I"
      [] c = "s" -> "S" [] c = "b" -> "B" [] c = "x" -> "X"
      [] OTHER -> c

\* str.upper()
Upper(text) == [i \in 1..Len(text) |-> UpperChar(text[i])]

IataVerdictNoCoincide(dep, arr, list) ==
    IF dep \notin list THEN "departure incorrect"
    ELSE IF arr \notin list THEN "arrival incorrect"
    ELSE "break"

\* lines 232-243: the branch one pass of the loop takes
IataVerdict(dep, arr, list) ==
    IF dep \notin list THEN "departure incorrect"
    ELSE IF arr \notin list THEN "arrival incorrect"
    ELSE IF dep = arr THEN "coincides"
    ELSE "break"

\* lines 265-266: fromisoformat succeeds and the assertion holds
DateAccepted(text, t) ==
    LET dt_date == FromIsoFormat(text)
    IN  dt_date.exc = "none" /\ t <= dt_date.val /\ dt_date.val <= t + 365

\* lines 291-292, on two dates format_date returned
ArrivalEarlier(arr, dep) == FromIsoFormat(arr).val < FromIsoFormat(dep).val

(* What the user and the site can give: codes in either case, listed or not, *)
(* and dates on both sides of every check.                                   *)
MaxMidnights == 1
Today0 == ToOrdinal(2020, 2, 28)
IataInputs == {KHI, <<"k", "h", "i">>, ISB, <<"I", "s", "b">>,
               <<"X", "X", "X">>, <<>>}
SiteLists == {{KHI, ISB}, {KHI, ISB, <<"M", "U", "X">>}, {KHI}}
DateInputs == {<<"-", 2020, 2, 27>>, <<"-", 2020, 2, 28>>, <<"-", 2020, 2, 29>>,
               <<"-", 2020, 2, 30>>, <<"-", 2021, 2, 27>>, <<"-", 2021, 2, 28>>,
               <<".", 2020, 2, 28>>, <<"", 0, 0, 0>>}

extractVars == <<date, travel, rates, parsed_page, ret>>
pairVars == <<first_travel, second_travel, flights_comb_list>>

\* print(text); of what validation prints only the last line is kept
PrintLine(text) == printed' = <<Message(text)>>

InitValidate ==
    /\ pc = "get_iata_list"
    /\ iata_list = {}
    /\ dep_iata \in IataInputs /\ arr_iata \in IataInputs
    /\ dep_date \in DateInputs /\ arr_date \in DateInputs \cup {None}
    /\ clock = Today0
    /\ today = [departure |-> 0, arrival |-> 0]
    /\ date = None /\ parsed_page = <<>> /\ ret = Raise("pending")
    /\ IdleRowArgs /\ IdleOptions

\* line 228: the site answers with its list
GetIataList ==
    /\ pc = "get_iata_list"
    /\ iata_list' \in SiteLists
    /\ pc' = "check_iata"
    /\ UNCHANGED <<dep_iata, arr_iata, dep_date, arr_date, clock, today>>
    /\ UNCHANGED printed
    /\ UNCHANGED <<extractVars, pairVars>>

\* lines 199-207: no answer, or 'Too Many Requests': sys.exit()
GetIataListExit ==
    /\ pc = "get_iata_list"
    /\ pc' = "exit"
    /\ \/ PrintLine("An unexpected connection error has occurred")
       \/ PrintLine("Sorry, the server is overloaded. Try again later.")
    /\ UNCHANGED <<iata_list, dep_iata, arr_iata, dep_date, arr_date, clock,
                   today>>
    /\ UNCHANGED <<extractVars, pairVars>>

\* lines 230-243: one pass of check_iata's loop; on break check_iata returns
\* and validate_args goes on to check_date
CheckIata ==
    /\ pc = "check_iata"
    /\ LET dep == Upper(dep_iata)
           arr == Upper(arr_iata)
           verdict == IataVerdict(dep, arr, iata_list)
       IN  \/ /\ verdict = "departure incorrect"
              /\ PrintLine("Departure-IATA is incorrect")
              /\ dep_iata' \in IataInputs /\ arr_iata' = arr
              /\ UNCHANGED pc
           \/ /\ verdict = "arrival incorrect"
              /\ PrintLine("Arrival-IATA is incorrect")
              /\ dep_iata' = dep /\ arr_iata' \in IataInputs
              /\ UNCHANGED pc
           \/ /\ verdict = "coincides"
              /\ PrintLine("Departure-IATA coincides with arrival-IATA")
              /\ dep_iata' \in IataInputs /\ arr_iata' \in IataInputs
              /\ UNCHANGED pc
           \/ /\ verdict = "break"
              /\ dep_iata' = dep /\ arr_iata' = arr
              /\ pc' = "check_date"
              /\ UNCHANGED printed
    /\ UNCHANGED <<iata_list, dep_date, arr_date, clock, today>>
    /\ UNCHANGED <<extractVars, pairVars>>

\* lines 264-270 for the departure date with `today` = t, and line 288 when
\* format_date returns
DepartureIteration(t) ==
    \/ /\ DateAccepted(dep_date, t)
       /\ UNCHANGED <<dep_date, printed>>
       /\ pc' = IF Truthy(arr_date) THEN "check_date_arrival"
                ELSE "search_flights"
    \/ /\ ~DateAccepted(dep_date, t)
       /\ PrintLine("Incorrect departure date")
       /\ dep_date' \in DateInputs
       /\ pc' = "format_date_departure"

ArrivalIterationUnchecked(t) ==
    \/ /\ DateAccepted(arr_date, t)
       /\ ~ArrivalEarlier(arr_date, dep_date)
       /\ UNCHANGED <<arr_date, printed>>
       /\ pc' = "search_flights"
    \/ /\ DateAccepted(arr_date, t)
       /\ ArrivalEarlier(arr_date, dep_date)
       /\ PrintLine("Departure date is later than arrival date")
       /\ \E text \in DateInputs :
             /\ arr_date' = text
             /\ pc' = IF FromIsoFormat(text).exc = "none"
                         /\ ~ArrivalEarlier(text, dep_date)
                      THEN "search_flights" ELSE "check_date_arrival"
    \/ /\ ~DateAccepted(arr_date, t)
       /\ PrintLine("Incorrect arrival date")
       /\ arr_date' \in DateInputs
       /\ pc' = "format_date_arrival"

\* lines 264-270 for the arrival date with `today` = t, and lines 291-296
\* when format_date returns
ArrivalIteration(t) ==
    \/ /\ DateAccepted(arr_date, t)
       /\ ~ArrivalEarlier(arr_date, dep_date)
       /\ UNCHANGED <<arr_date, printed>>
       /\ pc' = "search_flights"
    \/ /\ DateAccepted(arr_date, t)
       /\ ArrivalEarlier(arr_date, dep_date)
       /\ PrintLine("Departure date is later than arrival date")
       /\ arr_date' \in DateInputs
       /\ pc' = "check_date_arrival"
    \/ /\ ~DateAccepted(arr_date, t)
       /\ PrintLine("Incorrect arrival date")
       /\ arr_date' \in DateInputs
       /\ pc' = "format_date_arrival"

\* line 287: format_date(dep_date, 'departure') is called, reads today
\* (line 262) and makes its first pass
CheckDate ==
    /\ pc = "check_date"
    /\ today' = [today EXCEPT !.departure = clock]
    /\ DepartureIteration(clock)
    /\ UNCHANGED <<iata_list, dep_iata, arr_iata, arr_date, clock>>
    /\ UNCHANGED <<extractVars, pairVars>>

\* a later pass of format_date(dep_date, 'departure'), after an input()
FormatDateDeparture ==
    /\ pc = "format_date_departure"
    /\ DepartureIteration(today.departure)
    /\ UNCHANGED <<iata_list, dep_iata, arr_iata, arr_date, clock, today>>
    /\ UNCHANGED <<extractVars, pairVars>>

\* line 290: format_date(arr_date, 'arrival') is called, reads today and
\* makes its first pass
CheckDateArrival ==
    /\ pc = "check_date_arrival"
    /\ today' = [today EXCEPT !.arrival = clock]
    /\ ArrivalIteration(clock)
    /\ UNCHANGED <<iata_list, dep_iata, arr_iata, dep_date, clock>>
    /\ UNCHANGED <<extractVars, pairVars>>

\* a later pass of format_date(arr_date, 'arrival'), after an input()
FormatDateArrival ==
    /\ pc = "format_date_arrival"
    /\ ArrivalIteration(today.arrival)
    /\ UNCHANGED <<iata_list, dep_iata, arr_iata, dep_date, clock, today>>
    /\ UNCHANGED <<extractVars, pairVars>>

\* the day changes while the program waits for the site or for the user
Midnight ==
    /\ pc \in {"get_iata_list", "check_iata", "check_date",
               "format_date_departure", "check_date_arrival",
               "format_date_arrival"}
    /\ clock < Today0 + MaxMidnights
    /\ clock' = clock + 1
    /\ UNCHANGED <<pc, iata_list, dep_iata, arr_iata, dep_date, arr_date,
                   today, printed>>
    /\ UNCHANGED <<extractVars, pairVars>>

NextValidate ==
    \/ GetIataList
    \/ GetIataListExit
    \/ CheckIata
    \/ CheckDate
    \/ FormatDateDeparture
    \/ CheckDateArrival
    \/ FormatDateArrival
    \/ Midnight

SpecValidate == InitValidate /\ [][NextValidate]_vars

(* C9: whenever check_date has returned, the departure date is a valid ISO   *)
(* date within [today, today + 365 days], today being what the format_date   *)
(* call that returned it read; an arrival date that was given is a valid ISO *)
(* date within that range of its own format_date call and is not earlier     *)
(* than the departure date, however many dates the user re-entered.          *)
C9_CheckDateReturnsValidDates ==
    pc = "search_flights" =>
      /\ FromIsoFormat(dep_date).exc = "none"
      /\ today.departure <= FromIsoFormat(dep_date).val
      /\ FromIsoFormat(dep_date).val <= today.departure + 365
      /\ Truthy(arr_date) =>
            /\ FromIsoFormat(arr_date).exc = "none"
            /\ today.arrival <= FromIsoFormat(arr_date).val
            /\ FromIsoFormat(arr_date).val <= today.arrival + 365
            /\ FromIsoFormat(arr_date).val >= FromIsoFormat(dep_date).val

\* check_date returned a round trip, and the last thing the program printed
\* is its rejection of an arrival date earlier than the departure date: the
\* arrival date returned is the one entered after it
C9_Witness ==
    /\ pc = "search_flights"
    /\ Truthy(arr_date)
    /\ printed = <<Message("Departure date is later than arrival date")>>

(* C10: whenever check_iata has returned, both codes are upper-case members  *)
(* of the site's list and differ, however many codes the user re-entered; so *)
(* the wrapped search starts with a listed pair of different codes.          *)
C10_CheckIataReturnsListedPair ==
    pc \in {"check_date", "format_date_departure", "check_date_arrival",
            "format_date_arrival", "search_flights"} =>
      /\ dep_iata \in iata_list /\ arr_iata \in iata_list
      /\ dep_iata # arr_iata
      /\ Upper(dep_iata) = dep_iata /\ Upper(arr_iata) = arr_iata

\* check_iata returned, and the last thing it printed is its rejection of
\* two equal codes: the pair returned is the one entered after it
C10_Witness ==
    /\ pc = "check_date"
    /\ printed = <<Message("Departure-IATA coincides with arrival-IATA")>>

====
